---------------------------- MODULE Spec2Model ----------------------------
(***************************************************************************)
(* A model of the personal portfolio tracker: the persistence layer        *)
(* (Backend.py) over a relational store with four tables, and the page     *)
(* (Frontend.py) that calls it on every render.                            *)
(*                                                                         *)
(* store   the committed contents of the database: the four tables and    *)
(*         the identifier sequences of Users, Accounts and Assets.         *)
(* session st.session_state of one browser session.                        *)
(* last    the most recent call or render, with its inputs and result.     *)
(*                                                                         *)
(* Numbers.  shares and cost_basis are held in thousandths, a transaction  *)
(* amount in millionths; the store keeps every value it is given exactly.  *)
(* A Python Decimal is a coefficient and an exponent, [c, e] = c * 10^e.   *)
(* Decimal(x) of a float is exact; every Decimal operation rounds its      *)
(* exact result to the context precision, half to even.  Python's default  *)
(* context has 28 digits, a Decimal(float) up to about 50; the model keeps *)
(* the same rule with DecPrec digits, price factors of six digits and      *)
(* share and cost values of up to four.                                    *)
(***************************************************************************)
EXTENDS Integers, Sequences, FiniteSets, TLC

VARIABLES store, session, last

vars == <<store, session, last>>

-----------------------------------------------------------------------------
(* Bounds of the model. *)

\* The identifier sequences stop after this many values.
MaxUsers == 2
MaxAccounts == 2
MaxAssets == 2
\* Significant digits of the Decimal context (28 in Python's default context).
DecPrec == 5
\* Assets rows of the account whose insights InsightsSpec computes.
MaxRows == 3

-----------------------------------------------------------------------------
(* Python values. *)

\* None
NoneVal == [kind |-> "none", v |-> 0]
\* an int, such as cur.fetchone()[0]
IntVal(n) == [kind |-> "int", v |-> n]
\* a one-column row, the tuple (n,) that cur.fetchone() returns
RowVal(n) == [kind |-> "row", v |-> n]
\* a number given for an optional parameter, in thousandths
NumVal(n) == [kind |-> "num", v |-> n]

\* Python truth of an identifier value: None is false, an identifier (>= 1)
\* and a non-empty tuple are true.
Truthy(x) == x.kind # "none"

\* psycopg2's adaptation of a parameter: an int n is sent as n, the tuple (n,)
\* as the parenthesised list (n), which the store reads as n.
Adapt(x) == x.v

-----------------------------------------------------------------------------
(* decimal.Decimal *)

RECURSIVE Pow10(_)
Pow10(n) == IF n <= 0 THEN 1 ELSE 10 * Pow10(n - 1)

Abs(n) == IF n < 0 THEN -n ELSE n

RECURSIVE Digits(_)
\* The number of decimal digits of the coefficient n.
Digits(n) == IF Abs(n) < 10 THEN 1 ELSE 1 + Digits(Abs(n) \div 10)

\* n / 10^d rounded to an integer, half to even (ROUND_HALF_EVEN).
RoundHalfEven(n, d) ==
    LET m == Pow10(d)
        q == Abs(n) \div m
        r == Abs(n) % m
        up == (2 * r > m) \/ (2 * r = m /\ q % 2 = 1)
        a == IF up THEN q + 1 ELSE q
    IN IF n < 0 THEN -a ELSE a

Dec(c, e) == [c |-> c, e |-> e]

\* The context's rounding of an exact result to DecPrec significant digits.
DecRound(x) ==
    IF Digits(x.c) <= DecPrec THEN x
    ELSE LET d == Digits(x.c) - DecPrec
             c == RoundHalfEven(x.c, d)
         IN IF Digits(c) > DecPrec THEN Dec(c \div 10, x.e + d + 1)
            ELSE Dec(c, x.e + d)

Min(a, b) == IF a < b THEN a ELSE b

\* The coefficient of x at exponent e <= x.e.
Coef(x, e) == x.c * Pow10(x.e - e)

RECURSIVE Reduce(_)
\* x without the trailing zeros of its coefficient: the same value.
Reduce(x) ==
    IF x.c # 0 /\ x.c % 10 = 0 THEN Reduce(Dec(x.c \div 10, x.e + 1)) ELSE x

\* x * y.  The rounded value does not depend on the operands' trailing
\* zeros, which are left out of the product.
DecMul(x, y) ==
    LET a == Reduce(x)
        b == Reduce(y)
    IN DecRound(Dec(a.c * b.c, a.e + b.e))

DecAdd(x, y) ==
    LET e == Min(x.e, y.e) IN DecRound(Dec(Coef(x, e) + Coef(y, e), e))

DecSub(x, y) == DecAdd(x, Dec(-y.c, y.e))

\* Decimal's ==, which compares values: 1.0 == 1.00.
DecEq(x, y) == LET e == Min(x.e, y.e) IN Coef(x, e) = Coef(y, e)

\* Decimal(x) of a number given in thousandths, and a NUMERIC column read
\* back as a Decimal.
Decimal(n) == Dec(n, -3)

\* f"{x:.2f}": the text of x with two decimals, rounded half to even; the
\* text is held as its number of hundredths.
Format2(x) ==
    IF x.e >= -2 THEN x.c * Pow10(x.e + 2) ELSE RoundHalfEven(x.c, -2 - x.e)

\* A Decimal as a count of millionths, the amount column's value.
Micros(x) == Coef(x, -6)


-----------------------------------------------------------------------------
(* Inputs. *)

DefaultName == "John Doe"
DefaultEmail == "john.doe@example.com"
DefaultType == "Brokerage"
DefaultProvider == "Fictional Broker"

Emails == {DefaultEmail, "jane.roe@example.com"}
Providers == {DefaultProvider, "Second Broker"}
\* Two of the five classes the add form offers.
AssetClasses == {"Equity", "Crypto"}
TickerInputs == {"aapl", "AAPL"}
PurchaseDates == {"2024-01-01"}
\* Values of random.random(), in units of 10^-5.
RandomDraws == {2495, 97505}

\* str.upper() on the ticker inputs.
Upper(t) == IF t = "aapl" THEN "AAPL" ELSE t

-----------------------------------------------------------------------------
(* The store: tables, identifier sequences, constraints. *)

EmptyStore ==
    [Users |-> {}, Accounts |-> {}, Assets |-> {}, Transactions |-> {},
     seqUser |-> 1, seqAccount |-> 1, seqAsset |-> 1]

UserIds(db) == {u.user_id : u \in db.Users}
AccountIds(db) == {a.account_id : a \in db.Accounts}
AssetIds(db) == {a.asset_id : a \in db.Assets}

\* A rollback that leaves the unit of work in place.
RollbackKeepsWork(db, work) == work

\* conn.rollback(): the uncommitted rows of the unit of work are dropped; the
\* sequence values it drew are not given back.
Rollback(db, work) ==
    [db EXCEPT !.seqUser = work.seqUser, !.seqAccount = work.seqAccount,
               !.seqAsset = work.seqAsset]

\* conn.commit(): the unit of work becomes the committed contents.
Commit(db, work) == work

\* INSERT INTO Users (name, email) ... RETURNING user_id
InsertUser(db, name, email) ==
    [db EXCEPT !.Users = @ \cup {[user_id |-> db.seqUser, name |-> name,
                                  email |-> email]},
               !.seqUser = @ + 1]

\* INSERT INTO Accounts (user_id, account_type, provider_name) ...
\* RETURNING account_id
InsertAccount(db, user_id, account_type, provider) ==
    [db EXCEPT !.Accounts = @ \cup {[account_id |-> db.seqAccount,
                                     user_id |-> user_id,
                                     account_type |-> account_type,
                                     provider_name |-> provider]},
               !.seqAccount = @ + 1]

\* The result of create_user_and_account: a pair, or the exception that
\* get_db_connection() raised before the try block.
Pair(u, a) == [raised |-> FALSE, user_id |-> u, account_id |-> a]
NonePair == Pair(NoneVal, NoneVal)
RaisedPair == [raised |-> TRUE, user_id |-> NoneVal, account_id |-> NoneVal]

BootstrapFaults ==
    {"none", "connect", "select_user", "insert_user", "select_account",
     "insert_account"}

\* create_user_and_account.  fault names the call of the store that raises
\* psycopg2.Error, if that call is made.
create_user_and_account(db, user_name, user_email, account_type, provider, fault) ==
    IF fault = "connect" THEN [db |-> db, result |-> RaisedPair]
    ELSE IF fault = "select_user" THEN [db |-> db, result |-> NonePair]
    ELSE
      LET urows == {u \in db.Users : u.email = user_email}
          newUser == urows = {}
      IN IF newUser /\ fault = "insert_user"
         THEN [db |-> db, result |-> NonePair]
         ELSE
           LET \* the insert, then conn.commit() (line 34)
               db1 == IF newUser
                      THEN Commit(db, InsertUser(db, user_name, user_email))
                      ELSE db
               user_id == IF newUser THEN IntVal(db.seqUser)
                          ELSE RowVal((CHOOSE u \in urows : TRUE).user_id)
           IN IF fault = "select_account"
              THEN [db |-> Rollback(db1, db1), result |-> NonePair]
              ELSE
                LET arows == {a \in db1.Accounts :
                                 /\ a.user_id = Adapt(user_id)
                                 /\ a.provider_name = provider}
                    newAccount == arows = {}
                IN IF newAccount /\ fault = "insert_account"
                   THEN [db |-> Rollback(db1, db1), result |-> NonePair]
                   ELSE
                     LET db2 == IF newAccount
                                THEN Commit(db1, InsertAccount(db1, Adapt(user_id),
                                                       account_type, provider))
                                ELSE db1
                         account_id ==
                             IF newAccount THEN IntVal(db1.seqAccount)
                             ELSE RowVal((CHOOSE a \in arows : TRUE).account_id)
                     IN [db |-> db2, result |-> Pair(user_id, account_id)]

-----------------------------------------------------------------------------
(* Assets and Transactions. *)

\* A Decimal parameter as the NUMERIC value the store keeps, in thousandths.
Millis(x) == Coef(x, -3)

\* INSERT INTO Assets (...) VALUES (...) RETURNING asset_id
InsertAsset(db, account_id, ticker, asset_class, purchase_date, shares, cost_basis) ==
    [db EXCEPT !.Assets = @ \cup {[asset_id |-> db.seqAsset,
                                   account_id |-> account_id,
                                   ticker_symbol |-> ticker,
                                   asset_class |-> asset_class,
                                   purchase_date |-> purchase_date,
                                   shares |-> Millis(shares),
                                   cost_basis |-> Millis(cost_basis)]},
               !.seqAsset = @ + 1]

\* INSERT INTO Transactions (...) VALUES (%s, 'BUY', %s, %s, %s)
InsertTransaction(db, asset_id, transaction_date, shares, amount) ==
    [db EXCEPT !.Transactions = @ \cup {[asset_id |-> asset_id,
                                         transaction_type |-> "BUY",
                                         transaction_date |-> transaction_date,
                                         shares |-> Millis(shares),
                                         amount |-> Micros(amount)]}]

\* A delete that leaves the asset's transactions behind.
DeleteWithoutCascade(db, asset_id) ==
    [db EXCEPT !.Assets = {a \in @ : a.asset_id # asset_id}]

\* DELETE FROM Assets WHERE asset_id = %s, with the ON DELETE CASCADE
\* constraint of the Transactions table.
DeleteFromAssets(db, asset_id) ==
    [db EXCEPT !.Assets = {a \in @ : a.asset_id # asset_id},
               !.Transactions = {t \in @ : t.asset_id # asset_id}]

\* The text and parameters of the UPDATE statement that update_asset builds:
\* ", ".join(updates) between "UPDATE Assets SET " and " WHERE asset_id = %s".
UpdateStatement(updates, params) ==
    [verb |-> "UPDATE Assets SET", set |-> updates,
     where |-> "WHERE asset_id = %s", params |-> params]

\* A statement with nothing between SET and WHERE is a syntax error.
Malformed(stmt) == stmt.set = <<>>

\* The store executing a well-formed UPDATE: the i-th column of the SET
\* clause takes the i-th parameter, the last parameter selects the row.
ExecuteUpdate(db, stmt) ==
    LET n == Len(stmt.set)
        id == stmt.params[n + 1]
        Param(col, old) ==
            IF \E i \in 1..n : stmt.set[i] = col
            THEN stmt.params[CHOOSE i \in 1..n : stmt.set[i] = col]
            ELSE old
    IN [db EXCEPT !.Assets =
           {IF a.asset_id = id
            THEN [a EXCEPT !.shares = Param("shares = %s", @),
                           !.cost_basis = Param("cost_basis = %s", @)]
            ELSE a : a \in @}]

\* The result of a write: the store after it, and the message returned or the
\* exception raised by get_db_connection().  A message is kept without the
\* identifier and the error text that the code's f-strings put in it.
Outcome(db, message) == [db |-> db, result |-> message]

\* The result of update_asset, with the statements it handed to cur.execute.
UpdateOutcome(db, message, sent) ==
    [db |-> db, result |-> message, sent |-> sent]

Raised == "psycopg2.OperationalError"

CreateFaults == {"none", "connect", "insert_asset", "insert_transaction"}

\* create_asset_and_transaction
create_asset_and_transaction(db, user_id, account_id, ticker, asset_class, purchase_date, shares, cost_basis, fault) ==
    IF fault = "connect" THEN Outcome(db, Raised)
    ELSE IF fault = "insert_asset" THEN Outcome(db, "Error creating asset")
    ELSE
      LET tx1 == InsertAsset(db, Adapt(account_id), ticker, asset_class,
                             purchase_date, Decimal(shares), Decimal(cost_basis))
      IN IF Adapt(account_id) \notin AccountIds(db)
         THEN \* the foreign key of Assets.account_id rejects the row
              Outcome(Rollback(db, tx1), "Error creating asset")
         ELSE
           LET asset_id == db.seqAsset
               total_amount == DecMul(Decimal(shares), Decimal(cost_basis))
               tx2 == InsertTransaction(tx1, asset_id, purchase_date,
                                        Decimal(shares), total_amount)
           IN IF fault = "insert_transaction"
              THEN Outcome(Rollback(db, tx1), "Error creating asset")
              ELSE Outcome(Commit(db, tx2),
                           "Asset and transaction created successfully.")

WriteFaults == {"none", "connect", "execute"}

\* An updates list that names cost_basis for the new share count.
SetClausesWrongColumn(new_shares, new_cost_basis) ==
    (IF new_shares.kind # "none" THEN <<"cost_basis = %s">> ELSE <<>>)
    \o (IF new_cost_basis.kind # "none" THEN <<"shares = %s">> ELSE <<>>)

\* The updates list of update_asset (lines 140-146): one "column = %s" for
\* each value that is not None.
SetClauses(new_shares, new_cost_basis) ==
    (IF new_shares.kind # "none" THEN <<"shares = %s">> ELSE <<>>)
    \o (IF new_cost_basis.kind # "none" THEN <<"cost_basis = %s">> ELSE <<>>)

\* The params list of update_asset, before asset_id is appended.
SetParams(new_shares, new_cost_basis) ==
    (IF new_shares.kind # "none"
     THEN <<Millis(Decimal(new_shares.v))>> ELSE <<>>)
    \o (IF new_cost_basis.kind # "none"
        THEN <<Millis(Decimal(new_cost_basis.v))>> ELSE <<>>)

\* update_asset
update_asset(db, asset_id, new_shares, new_cost_basis, fault) ==
    IF fault = "connect" THEN UpdateOutcome(db, Raised, <<>>)
    ELSE
      LET updates == SetClauses(new_shares, new_cost_basis)
          params == SetParams(new_shares, new_cost_basis) \o <<asset_id>>
          stmt == UpdateStatement(updates, params)
      IN IF fault = "execute" \/ Malformed(stmt)
         THEN UpdateOutcome(Rollback(db, db), "Error updating asset", <<stmt>>)
         ELSE UpdateOutcome(Commit(db, ExecuteUpdate(db, stmt)),
                            "Asset updated successfully.", <<stmt>>)

\* delete_asset
delete_asset(db, asset_id, fault) ==
    IF fault = "connect" THEN Outcome(db, Raised)
    ELSE IF fault = "execute"
         THEN Outcome(Rollback(db, db), "Error deleting asset")
         ELSE Outcome(Commit(db, DeleteFromAssets(db, asset_id)),
                      "Asset deleted successfully.")

-----------------------------------------------------------------------------
(* Reads: the portfolio and the insights. *)

\* A SELECT without its WHERE clause.
AssetsOfAnyAccount(db, account_id) == db.Assets

\* The rows SELECT ... FROM Assets WHERE account_id = %s returns; None is
\* sent as NULL, which equals no account_id.
AssetsOf(db, account_id) ==
    IF account_id.kind = "none" THEN {}
    ELSE {a \in db.Assets : a.account_id = Adapt(account_id)}

\* The orders in which the store may return rows: the queries have no
\* ORDER BY.  An order lists the asset identifiers drawn so far.
Orders(db) ==
    {o \in [1..(db.seqAsset - 1) -> 1..(db.seqAsset - 1)] :
        \A i, j \in 1..(db.seqAsset - 1) : i # j => o[i] # o[j]}

RECURSIVE FetchFrom(_, _, _)
\* The rows whose identifiers are order[k], order[k+1], ..., in that order.
FetchFrom(rows, order, k) ==
    IF k > Len(order) THEN <<>>
    ELSE (IF \E a \in rows : a.asset_id = order[k]
          THEN <<CHOOSE a \in rows : a.asset_id = order[k]>>
          ELSE <<>>) \o FetchFrom(rows, order, k + 1)

\* cur.fetchall(): the rows, in the order the store returns them.
Fetchall(rows, order) == FetchFrom(rows, order, 1)

\* Decimal(1 + (random.random() - 0.5) * 0.2), r in units of 10^-5.
PriceFactor(r) == Dec(100000 + (r - 50000) \div 5, -5)

\* One entry of the portfolio (lines 106-122); each f"{x:.2f}" text is held
\* as its number of hundredths.
PortfolioEntry(a, r) ==
    LET shares == Decimal(a.shares)
        cost_basis == Decimal(a.cost_basis)
        current_price == DecMul(cost_basis, PriceFactor(r))
        current_value == DecMul(shares, current_price)
        gain_loss == DecSub(current_value, DecMul(shares, cost_basis))
    IN [asset_id |-> a.asset_id,
        Ticker |-> a.ticker_symbol,
        AssetClass |-> a.asset_class,
        Shares |-> a.shares,
        CostBasis |-> Format2(cost_basis),
        PurchaseDate |-> a.purchase_date,
        CurrentPrice |-> Format2(current_price),
        CurrentValue |-> Format2(current_value),
        GainLoss |-> Format2(gain_loss)]

ReadFaults == {"none", "connect", "execute"}

\* read_portfolio.  order is the order in which the store returns rows;
\* draw[id] is the value random.random() returns for the row of asset id.
read_portfolio(db, account_id, order, draw, fault) ==
    IF fault = "connect" THEN [kind |-> "raised", entries |-> <<>>]
    ELSE IF fault = "execute" THEN [kind |-> "error", entries |-> <<>>]
    ELSE
      LET assets == Fetchall(AssetsOf(db, account_id), order)
      IN [kind |-> "list",
          entries |-> [i \in 1..Len(assets) |->
                          PortfolioEntry(assets[i], draw[assets[i].asset_id])]]

\* asset_allocation, a dict: its keys in insertion order and their values.
EmptyDict == [keys |-> <<>>, val |-> <<>>]

KeyIndex(d, k) == CHOOSE i \in 1..Len(d.keys) : d.keys[i] = k

HasKey(d, k) == \E i \in 1..Len(d.keys) : d.keys[i] = k

\* d[k] += x, after d[k] = Decimal(0) for a new key (lines 212-214).
DictAdd(d, k, x) ==
    LET d0 == IF HasKey(d, k) THEN d
              ELSE [keys |-> Append(d.keys, k), val |-> Append(d.val, Dec(0, 0))]
        i == KeyIndex(d0, k)
    IN [d0 EXCEPT !.val[i] = DecAdd(@, x)]

RECURSIVE InsightsLoop(_, _, _, _)
\* The loop of get_insights over rows[i..] (lines 203-214).
InsightsLoop(rows, draw, i, acc) ==
    IF i > Len(rows) THEN acc
    ELSE
      LET shares == Decimal(rows[i].shares)
          cost_basis == Decimal(rows[i].cost_basis)
          current_price == DecMul(cost_basis, PriceFactor(draw[rows[i].asset_id]))
          current_value == DecMul(shares, current_price)
      IN InsightsLoop(rows, draw, i + 1,
           [total_value |-> DecAdd(acc.total_value, current_value),
            total_cost_basis |->
                DecAdd(acc.total_cost_basis, DecMul(shares, cost_basis)),
            asset_allocation |->
                DictAdd(acc.asset_allocation, rows[i].asset_class, current_value)])

\* get_insights, with order and draw as in read_portfolio.
get_insights(db, account_id, order, draw, fault) ==
    IF fault = "connect"
    THEN [kind |-> "raised", total_value |-> Dec(0, 0),
          total_gain_loss |-> Dec(0, 0), asset_allocation |-> EmptyDict]
    ELSE IF fault = "execute"
    THEN [kind |-> "error", total_value |-> Dec(0, 0),
          total_gain_loss |-> Dec(0, 0), asset_allocation |-> EmptyDict]
    ELSE
      LET assets == Fetchall(AssetsOf(db, account_id), order)
          acc == InsightsLoop(assets, draw, 1,
                     [total_value |-> Dec(0, 0), total_cost_basis |-> Dec(0, 0),
                      asset_allocation |-> EmptyDict])
      IN [kind |-> "dict",
          total_value |-> acc.total_value,
          total_gain_loss |-> DecSub(acc.total_value, acc.total_cost_basis),
          asset_allocation |-> acc.asset_allocation]

-----------------------------------------------------------------------------
(* The operations as actions.  last records the call and its result. *)

Draws(db) == [1..(db.seqAsset - 1) -> RandomDraws]

NoCall == [op |-> "none"]

\* cur.rowcount after a statement WHERE asset_id = %s.
RowCount(db, asset_id) == Cardinality({a \in db.Assets : a.asset_id = asset_id})

NoSession == [set |-> FALSE, user_id |-> NoneVal, account_id |-> NoneVal]

CreateUserAndAccount(email, provider, fault) ==
    LET r == create_user_and_account(store, DefaultName, email, DefaultType,
                                     provider, fault)
    IN /\ store.seqUser <= MaxUsers
       /\ store.seqAccount <= MaxAccounts
       /\ store' = r.db
       /\ last' = [op |-> "create_user_and_account", email |-> email,
                   provider |-> provider, fault |-> fault, result |-> r.result]
       /\ UNCHANGED session

CreateAssetAndTransaction(account_id, ticker, asset_class, purchase_date, shares, cost_basis, fault) ==
    LET r == create_asset_and_transaction(store, NoneVal, account_id, ticker,
                 asset_class, purchase_date, shares, cost_basis, fault)
    IN /\ store.seqAsset <= MaxAssets
       /\ store' = r.db
       /\ last' = [op |-> "create_asset_and_transaction",
                   account_id |-> account_id, ticker |-> ticker,
                   asset_class |-> asset_class,
                   purchase_date |-> purchase_date,
                   shares |-> shares, cost_basis |-> cost_basis,
                   fault |-> fault, result |-> r.result]
       /\ UNCHANGED session

ReadPortfolio(account_id, order, draw, fault) ==
    /\ last' = [op |-> "read_portfolio", account_id |-> account_id,
                fault |-> fault,
                result |-> read_portfolio(store, account_id, order, draw, fault)]
    /\ UNCHANGED <<store, session>>

GetInsights(account_id, order, draw, fault) ==
    /\ last' = [op |-> "get_insights", account_id |-> account_id,
                fault |-> fault,
                result |-> get_insights(store, account_id, order, draw, fault)]
    /\ UNCHANGED <<store, session>>

UpdateAsset(asset_id, new_shares, new_cost_basis, fault) ==
    LET r == update_asset(store, asset_id, new_shares, new_cost_basis, fault)
    IN /\ store' = r.db
       /\ last' = [op |-> "update_asset", asset_id |-> asset_id,
                   new_shares |-> new_shares, new_cost_basis |-> new_cost_basis,
                   fault |-> fault, result |-> r.result, sent |-> r.sent,
                   rowcount |-> RowCount(store, asset_id)]
       /\ UNCHANGED session

DeleteAsset(asset_id, fault) ==
    LET r == delete_asset(store, asset_id, fault)
    IN /\ store' = r.db
       /\ last' = [op |-> "delete_asset", asset_id |-> asset_id,
                   fault |-> fault, result |-> r.result,
                   rowcount |-> RowCount(store, asset_id)]
       /\ UNCHANGED session

-----------------------------------------------------------------------------
(* BootstrapSpec: create_user_and_account on a store that starts empty. *)

BootstrapInit ==
    /\ store = EmptyStore
    /\ session = NoSession
    /\ last = NoCall

BootstrapNext ==
    \E email \in Emails, provider \in Providers, fault \in BootstrapFaults :
        CreateUserAndAccount(email, provider, fault)

BootstrapSpec == BootstrapInit /\ [][BootstrapNext]_vars

\* The store after bootstrap with the default arguments.
OneAccount ==
    create_user_and_account(EmptyStore, DefaultName, DefaultEmail, DefaultType,
                            DefaultProvider, "none").db

\* The store after a second bootstrap, with another provider.
TwoAccounts ==
    create_user_and_account(OneAccount, DefaultName, DefaultEmail, DefaultType,
                            "Second Broker", "none").db

-----------------------------------------------------------------------------
(* Spec: create, update and delete on the default account. *)

\* Thousandths: 3.000 shares at 7.250; an update to 2.000.
SpecShares == {3000}
SpecCosts == {7250}
SpecUpdates == {NoneVal, NumVal(2000)}
\* The default account as an int and as a row, and an account that is not there.
SpecAccounts == {IntVal(1), RowVal(1), IntVal(2)}

Init ==
    /\ store = OneAccount
    /\ session = NoSession
    /\ last = NoCall

Next ==
    \/ \E account_id \in SpecAccounts, ticker \in TickerInputs,
          purchase_date \in PurchaseDates, shares \in SpecShares,
          cost_basis \in SpecCosts, fault \in CreateFaults :
          CreateAssetAndTransaction(account_id, Upper(ticker), "Equity",
                                    purchase_date, shares, cost_basis, fault)
    \/ \E asset_id \in 1..(MaxAssets + 1), new_shares \in SpecUpdates,
          new_cost_basis \in SpecUpdates, fault \in WriteFaults :
          UpdateAsset(asset_id, new_shares, new_cost_basis, fault)
    \/ \E asset_id \in 1..(MaxAssets + 1), fault \in WriteFaults :
          DeleteAsset(asset_id, fault)

Spec == Init /\ [][Next]_vars

-----------------------------------------------------------------------------
(* CreateSpec: create, delete and read over two accounts. *)

\* Thousandths: 1.005 has three decimals, 8.000 two; 1.125 x 1.005 has more
\* digits than the context keeps, 1.125 x 8.000 has not.
CreateShares == {1125}
CreateCosts == {1005, 8000}
CreateAccounts == {IntVal(1), RowVal(2), IntVal(3)}

CreateInit ==
    /\ store = TwoAccounts
    /\ session = NoSession
    /\ last = NoCall

CreateNext ==
    \/ \E account_id \in CreateAccounts, ticker \in TickerInputs,
          purchase_date \in PurchaseDates, shares \in CreateShares,
          cost_basis \in CreateCosts, fault \in CreateFaults :
          CreateAssetAndTransaction(account_id, Upper(ticker), "Equity",
                                    purchase_date, shares, cost_basis, fault)
    \/ \E asset_id \in 1..MaxAssets, fault \in WriteFaults :
          DeleteAsset(asset_id, fault)
    \/ \E account_id \in CreateAccounts, order \in Orders(store),
          draw \in Draws(store), fault \in ReadFaults :
          ReadPortfolio(account_id, order, draw, fault)

CreateSpec == CreateInit /\ [][CreateNext]_vars

-----------------------------------------------------------------------------
(* InsightsSpec: get_insights on portfolios drawn at the start: up to       *)
(* MaxRows assets of the first account, each 3.000 shares at 1.005 or       *)
(* 7.250, in one of two classes.                                            *)

ReadShares == {3000}
ReadCosts == {1005, 7250}
ReadAccounts == {IntVal(1), RowVal(2)}

RECURSIVE Portfolios(_)
\* The stores that n successful creates on the first account lead to.
Portfolios(n) ==
    IF n = 0 THEN {TwoAccounts}
    ELSE {create_asset_and_transaction(db, IntVal(1), IntVal(1), "AAPL",
              asset_class, "2024-01-01", shares, cost_basis, "none").db :
            db \in Portfolios(n - 1), asset_class \in AssetClasses,
            shares \in ReadShares, cost_basis \in ReadCosts}

InsightsInit ==
    /\ store \in UNION {Portfolios(n) : n \in 0..MaxRows}
    /\ session = NoSession
    /\ last = NoCall

InsightsNext ==
    \E account_id \in ReadAccounts, order \in Orders(store),
       draw \in Draws(store), fault \in ReadFaults :
       GetInsights(account_id, order, draw, fault)

InsightsSpec == InsightsInit /\ [][InsightsNext]_vars

-----------------------------------------------------------------------------
(* Properties of create_asset_and_transaction and read_portfolio. *)

Created == "Asset and transaction created successfully."

\* The Decimal product of two numbers of thousandths, in millionths: the
\* exact product at the significant digits the context keeps.
Product(shares, cost_basis) == Micros(DecRound(Dec(shares * cost_basis, -6)))

\* The rows a successful create adds for its inputs: one Asset row with a
\* fresh identifier and its BUY transaction, amount = shares x cost_basis.
CreateAdded(old, new, call) ==
    \E a \in new.Assets \ old.Assets, t \in new.Transactions \ old.Transactions :
        /\ new.Assets = old.Assets \cup {a}
        /\ new.Transactions = old.Transactions \cup {t}
        /\ a.asset_id \notin AssetIds(old)
        /\ a.account_id = Adapt(call.account_id)
        /\ a.ticker_symbol = call.ticker
        /\ a.asset_class = call.asset_class
        /\ a.purchase_date = call.purchase_date
        /\ a.shares = call.shares
        /\ a.cost_basis = call.cost_basis
        /\ t.asset_id = a.asset_id
        /\ t.transaction_type = "BUY"
        /\ t.transaction_date = call.purchase_date
        /\ t.shares = call.shares
        /\ t.amount = Product(call.shares, call.cost_basis)

TextMatches(text, c) == text * 10 = c

\* read_portfolio after a create against read_portfolio before it: one more
\* entry, the new one with the cost basis given, none of another account.
OneMoreEntry(old, new, call) ==
    LET Before == {read_portfolio(old, call.account_id, o, d, "none").entries :
                     o \in Orders(old), d \in Draws(old)}
        After == {read_portfolio(new, call.account_id, o, d, "none").entries :
                    o \in Orders(new), d \in Draws(new)}
    IN \A before \in Before, after \in After :
        LET was == {before[i].asset_id : i \in 1..Len(before)}
            fresh == {i \in 1..Len(after) : after[i].asset_id \notin was}
        IN /\ Len(after) = Len(before) + 1
           /\ Cardinality(fresh) = 1
           /\ \A i \in fresh : TextMatches(after[i].CostBasis, call.cost_basis)
           /\ \A i \in 1..Len(after) :
                 \E a \in new.Assets : /\ a.asset_id = after[i].asset_id
                                       /\ a.account_id = Adapt(call.account_id)

\* C7 as stated: after every successful create, read_portfolio on the same
\* account returns exactly one more entry than before, the new entry's cost
\* basis equals the input cost basis, and no entry is of another account.
C7_AsStated ==
    [][(last'.op = "create_asset_and_transaction" /\ last'.result = Created)
          => OneMoreEntry(store, store', last')]_vars

\* C7, amended: after every successful create whose input cost basis has at
\* most two decimals, read_portfolio on the same account returns exactly one
\* more entry than before, the new entry's cost basis equals the input cost
\* basis, and no entry is of another account.
C7_OneMoreEntry ==
    [][(/\ last'.op = "create_asset_and_transaction"
        /\ last'.result = Created
        /\ last'.cost_basis % 10 = 0)
          => OneMoreEntry(store, store', last')]_vars

\* C7: a create with a two-decimal cost basis succeeded while another
\* account holds an asset too.
C7_Witness ==
    /\ last.op = "create_asset_and_transaction"
    /\ last.result = Created
    /\ last.cost_basis % 10 = 0
    /\ AssetsOf(store, last.account_id) # {}
    /\ \E a \in store.Assets : a.account_id # Adapt(last.account_id)

-----------------------------------------------------------------------------
(* Properties of update_asset and delete_asset. *)

Updated == "Asset updated successfully."
Deleted == "Asset deleted successfully."

\* C4: update_asset with neither new_shares nor new_cost_basis fails with an
\* error, hands no malformed statement to the store, and leaves the Assets
\* table unchanged.
C4_NoMalformedStatement ==
    [][(/\ last'.op = "update_asset"
        /\ last'.new_shares = NoneVal
        /\ last'.new_cost_basis = NoneVal
        /\ last'.fault = "none")
          => /\ last'.result = "Error updating asset"
             /\ \A i \in 1..Len(last'.sent) : ~Malformed(last'.sent[i])
             /\ store'.Assets = store.Assets]_vars

\* The rows other than asset id, and every transaction, are as they were.
OthersUnchanged(old, new, id) ==
    /\ {a \in new.Assets : a.asset_id # id} = {a \in old.Assets : a.asset_id # id}
    /\ AssetIds(new) = AssetIds(old)
    /\ new.Transactions = old.Transactions

\* C5: a successful update_asset given only new_shares sets the asset's
\* shares and leaves its cost_basis, one given only new_cost_basis sets its
\* cost_basis and leaves its shares; every other Asset row and every
\* Transaction row is unchanged.
C5_PartialUpdate ==
    [][(/\ last'.op = "update_asset"
        /\ last'.result = Updated
        /\ (last'.new_shares = NoneVal) # (last'.new_cost_basis = NoneVal))
          => /\ OthersUnchanged(store, store', last'.asset_id)
             /\ \A a \in store.Assets : a.asset_id = last'.asset_id =>
                   \E b \in store'.Assets :
                      /\ b = [a EXCEPT
                                !.shares = IF last'.new_shares = NoneVal THEN @
                                           ELSE last'.new_shares.v,
                                !.cost_basis = IF last'.new_cost_basis = NoneVal THEN @
                                               ELSE last'.new_cost_basis.v]]_vars

\* An update of the shares alone changed one of two assets: the asset has
\* the new share count and a cost basis that differs from it.
C5_Witness ==
    /\ last.op = "update_asset"
    /\ last.result = Updated
    /\ last.rowcount = 1
    /\ last.new_shares # NoneVal
    /\ last.new_cost_basis = NoneVal
    /\ Cardinality(store.Assets) = 2
    /\ \E a \in store.Assets : /\ a.asset_id = last.asset_id
                               /\ a.shares = last.new_shares.v
                               /\ a.cost_basis # last.new_shares.v

\* Every Transaction references an existing Asset.
ReferentialIntegrity ==
    \A t \in store.Transactions : t.asset_id \in AssetIds(store)

\* C6: after any sequence of create, update and delete, every Transaction
\* references an existing Asset; after a successful delete_asset(a) no
\* Asset and no Transaction of a is left; delete_asset of an identifier
\* that is not there succeeds and changes nothing.
C6_ReferentialIntegrity ==
    /\ [](/\ ReferentialIntegrity
          /\ (last.op = "delete_asset" /\ last.result = Deleted) =>
                /\ last.asset_id \notin AssetIds(store)
                /\ \A t \in store.Transactions : t.asset_id # last.asset_id)
    /\ [][(/\ last'.op = "delete_asset"
           /\ last'.fault = "none"
           /\ last'.asset_id \notin AssetIds(store))
             => /\ last'.result = Deleted
                /\ store' = store]_vars

\* A delete removed an asset while another asset and its transaction stay.
C6_Witness ==
    /\ last.op = "delete_asset"
    /\ last.result = Deleted
    /\ last.rowcount = 1
    /\ store.Assets # {}
    /\ store.Transactions # {}

-----------------------------------------------------------------------------
(* Properties of create_user_and_account. *)

\* C2: two successive calls of create_user_and_account with identical inputs,
\* neither meeting a store error, return identical (user_id, account_id)
\* pairs, and the second adds no row to Users or Accounts.
C2_BootstrapIdempotent ==
    [][(/\ last.op = "create_user_and_account"
        /\ last'.op = "create_user_and_account"
        /\ last'.email = last.email
        /\ last'.provider = last.provider
        /\ last.fault = "none"
        /\ last'.fault = "none")
          => /\ last'.result = last.result
             /\ store'.Users = store.Users
             /\ store'.Accounts = store.Accounts]_vars

\* C3: a call of create_user_and_account that returns (None, None) leaves
\* no User row and no Account row that it created.
C3_BootstrapRollsBack ==
    [][(last'.op = "create_user_and_account" /\ last'.result = NonePair)
          => /\ store'.Users = store.Users
             /\ store'.Accounts = store.Accounts]_vars

-----------------------------------------------------------------------------
(* Properties of get_insights. *)

RECURSIVE DecSum(_, _)
\* sum(values): the Decimal sum of values[1..n], added in order.
DecSum(values, n) ==
    IF n = 0 THEN Dec(0, 0) ELSE DecAdd(DecSum(values, n - 1), values[n])

RECURSIVE CostOf(_)
\* The sum over a set of Assets rows of shares x cost_basis, in millionths.
CostOf(rows) ==
    IF rows = {} THEN 0
    ELSE LET a == CHOOSE a \in rows : TRUE
         IN a.shares * a.cost_basis + CostOf(rows \ {a})

\* total_value is the sum of the values of asset_allocation.
TotalIsSumOfAllocation(r) ==
    DecEq(r.total_value,
          DecSum(r.asset_allocation.val, Len(r.asset_allocation.val)))

\* total_gain_loss is total_value less the cost of the account's assets.
GainIsValueLessCost(r, rows) ==
    DecEq(r.total_gain_loss, DecSub(r.total_value, Dec(CostOf(rows), -6)))

\* An account without assets has total 0, gain 0 and an empty allocation.
EmptyIsZero(r, rows) ==
    rows = {} => /\ DecEq(r.total_value, Dec(0, 0))
                 /\ DecEq(r.total_gain_loss, Dec(0, 0))
                 /\ r.asset_allocation = EmptyDict

\* C8: the result of get_insights has total_value = the sum of the values
\* of asset_allocation and total_gain_loss = total_value less the sum of
\* shares x cost_basis over the account's assets; for an account with no
\* assets it is 0, 0 and an empty allocation.
C8_InsightsTotals ==
    (last.op = "get_insights" /\ last.result.kind = "dict") =>
        /\ TotalIsSumOfAllocation(last.result)
        /\ GainIsValueLessCost(last.result, AssetsOf(store, last.account_id))
        /\ EmptyIsZero(last.result, AssetsOf(store, last.account_id))

-----------------------------------------------------------------------------
(* The page.  One render runs the script from top to bottom; an exception  *)
(* that a call raises ends the render there.  The figures shown are not    *)
(* part of the state: a render is followed for one row order and one draw. *)

\* The add form is submitted MaxPageAssets times at most.
MaxPageAssets == 1

AnyOrder(db) == CHOOSE o \in Orders(db) : TRUE
AnyDraw(db) == CHOOSE d \in Draws(db) : TRUE

\* The store error of a render: the call it strikes and the place in it.
NoFault == [call |-> "none", at |-> "none"]

PageFaults ==
    {NoFault}
    \cup {[call |-> "bootstrap", at |-> f] : f \in BootstrapFaults \ {"none"}}
    \cup {[call |-> c, at |-> f] :
            c \in {"insights", "form", "portfolio"}, f \in {"connect", "execute"}}

FaultOf(fault, call) == IF fault.call # call THEN "none" ELSE fault.at

\* Lines 15-18: the identifiers are fetched when the session has none.
PageBootstrap(db, s, fault) ==
    IF s.set THEN [db |-> db, session |-> s, raised |-> FALSE]
    ELSE LET r == create_user_and_account(db, DefaultName, DefaultEmail,
                      DefaultType, DefaultProvider, FaultOf(fault, "bootstrap"))
         IN IF r.result.raised
            THEN [db |-> r.db, session |-> s, raised |-> TRUE]
            ELSE [db |-> r.db, raised |-> FALSE,
                  session |-> [set |-> TRUE, user_id |-> r.result.user_id,
                               account_id |-> r.result.account_id]]

\* Lines 25-45: the summary, shown when the session has an account.
PageSummary(db, s, fault) ==
    IF ~Truthy(s.account_id) THEN "hidden"
    ELSE LET insights == get_insights(db, s.account_id, AnyOrder(db),
                                      AnyDraw(db), FaultOf(fault, "insights"))
         IN IF insights.kind = "raised" THEN "raised"
            ELSE IF insights.kind = "dict" THEN "shown"
            ELSE "error"

NoForm == [form |-> "none"]

SetupFailed == "Application setup failed. Please check the backend connection."

\* Lines 53-94: the form that was submitted, if any.
PageForm(db, s, form, fault) ==
    IF form.form = "add"
    THEN IF Truthy(s.user_id) /\ Truthy(s.account_id)
         THEN create_asset_and_transaction(db, s.user_id, s.account_id,
                  Upper(form.ticker), form.asset_class, form.purchase_date,
                  form.shares, form.cost_basis,
                  IF FaultOf(fault, "form") = "execute" THEN "insert_transaction"
                  ELSE FaultOf(fault, "form"))
         ELSE Outcome(db, SetupFailed)
    ELSE IF form.form = "update"
    THEN LET r == update_asset(db, form.update_id, form.new_shares,
                               form.new_cost_basis, FaultOf(fault, "form"))
         IN Outcome(r.db, r.result)
    ELSE IF form.form = "delete"
    THEN delete_asset(db, form.delete_id, FaultOf(fault, "form"))
    ELSE Outcome(db, "none")

\* Lines 99-110: the holdings.
PageHoldings(db, s, fault) ==
    LET portfolio == read_portfolio(db, s.account_id, AnyOrder(db),
                                    AnyDraw(db), FaultOf(fault, "portfolio"))
    IN IF portfolio.kind = "raised" THEN "raised"
       ELSE IF portfolio.kind = "error" THEN "error"
       ELSE IF portfolio.entries # <<>> THEN "table"
       ELSE "empty"

\* What a render leaves in last: whether a store error struck, the form
\* submitted, and what the page showed in its three parts.
Shown(fault, form, summary, message, holdings) ==
    [op |-> "render", healthy |-> fault = NoFault, form |-> form.form,
     summary |-> summary, message |-> message, holdings |-> holdings]

Render(form, fault) ==
    LET b == PageBootstrap(store, session, fault)
        summary == PageSummary(b.db, b.session, fault)
        f == PageForm(b.db, b.session, form, fault)
        holdings == PageHoldings(f.db, b.session, fault)
    IN /\ form.form = "add" => store.seqAsset <= MaxPageAssets
       /\ IF b.raised
          THEN /\ store' = b.db
               /\ session' = b.session
               /\ last' = Shown(fault, form, "not reached", "not reached",
                                "not reached")
          ELSE IF summary = "raised"
          THEN /\ store' = b.db
               /\ session' = b.session
               /\ last' = Shown(fault, form, "raised", "not reached",
                                "not reached")
          ELSE IF f.result = Raised
          THEN /\ store' = f.db
               /\ session' = b.session
               /\ last' = Shown(fault, form, summary, Raised, "not reached")
          ELSE /\ store' = f.db
               /\ session' = b.session
               /\ last' = Shown(fault, form, summary, f.result, holdings)

\* A new browser session starts with an empty st.session_state.
NewSession ==
    /\ session.set
    /\ session' = NoSession
    /\ last' = [op |-> "new session"]
    /\ UNCHANGED store

\* Thousandths the forms were given: 3.000 shares at 7.250 to add; nothing
\* or -1.000 to update.
PageShares == {3000}
PageCosts == {7250}
PageUpdates == {NoneVal, NumVal(-1000)}

Forms ==
    {NoForm}
    \cup {[form |-> "add", ticker |-> t, asset_class |-> c, purchase_date |-> d,
           shares |-> s, cost_basis |-> b] :
            t \in TickerInputs, c \in {"Equity"}, d \in PurchaseDates,
            s \in PageShares, b \in PageCosts}
    \cup {[form |-> "update", update_id |-> i, new_shares |-> s,
           new_cost_basis |-> b] :
            i \in 1..MaxAssets, s \in PageUpdates, b \in PageUpdates}
    \cup {[form |-> "delete", delete_id |-> i] : i \in 1..MaxAssets}

PageInit ==
    /\ store = EmptyStore
    /\ session = NoSession
    /\ last = NoCall

PageNext ==
    \/ \E form \in Forms, fault \in PageFaults : Render(form, fault)
    \/ NewSession

PageSpec == PageInit /\ [][PageNext]_vars

\* C9: a render that meets no store error, whatever happened in the renders
\* of the session before it, has valid identifiers in the session, shows
\* the insights, and creates the asset when the add form was submitted.
C9_RendersIndependent ==
    (last.op = "render" /\ last.healthy) =>
        /\ Truthy(session.user_id)
        /\ Truthy(session.account_id)
        /\ last.summary = "shown"
        /\ last.form = "add" => last.message = Created

\* C10: every Asset row has shares >= 0 and cost_basis >= 0 after any
\* sequence of operations issued through the page's forms.
C10_NonNegative ==
    \A a \in store.Assets : a.shares >= 0 /\ a.cost_basis >= 0

=============================================================================
